---- MODULE Spec2Model ----
(***************************************************************************)
(* sp-tracing (primitives/tracing/src/lib.rs): the subscriber slot         *)
(* SUBSCRIBER_INSTANCE with set_tracing_subscriber/get_tracing_subscriber, *)
(* and the span macros within_span!/enter_span!, under the crate's build   *)
(* features "std" and "with-tracing".                                      *)
(***************************************************************************)
EXTENDS Integers, Sequences, FiniteSets, TLC

\* ---------------------------------------------------------------- bounds
\* execution contexts (threads) that call into the crate
NumCtx == 2
\* Box<dyn TracingSubscriber> instances that are ever created and passed to
\* set_tracing_subscriber (one fresh instance per call)
MaxInstances == 3

\* within_span!/enter_span! invocations in one run
MaxSpans == 3

Ctx == 1..NumCtx
Instances == 1..MaxInstances

\* Level (tracing::Level with "std", WasmLevel without)
Levels == {"TRACE", "DEBUG", "INFO", "WARN", "ERROR"}
\* span names the callers use
Names == {"a", "b"}
\* values a traced body can evaluate to
BodyValues == {"x", "y"}
\* the two macro forms: `$span:expr` and `$lvl:expr, $name:expr`
Forms == {"span", "lvl_name"}
Descriptors == [form : Forms, level : Levels, name : Names]
\* the invocations of the crate's doc examples: a built span, and level and name
DocExamples ==
  {[form |-> "span", level |-> "WARN", name |-> "a"],
   [form |-> "lvl_name", level |-> "TRACE", name |-> "b"]}
\* fields a consumer is shown with one span
MaxFields == 2

\* the reserved identifiers the crate documentation names
WASM_TARGET_KEY == "WASM_TARGET_KEY"
WASM_NAME_KEY == "WASM_NAME_KEY"
WASM_TRACE_IDENTIFIER == "WASM_TRACE_IDENTIFIER"
\* a field of a span: a name and its recorded value
Fields == [name : {WASM_NAME_KEY, WASM_TARGET_KEY, "other"}, value : {"N", "T"}]
FieldSets == UNION {[1..n -> Fields] : n \in 0..MaxFields}
\* the literal names and the literal target of the spans a consumer is shown
SeenNames == {WASM_TRACE_IDENTIFIER, "a"}
SeenTargets == {"generic"}
\* how control leaves a scope
Outcomes == {"normal", "return", "unwind"}

\* Option<&Box<dyn TracingSubscriber>>: None is the empty set, Some(i) is {i}
None == {}
Some(i) == {i}

\* the four feature combinations the cfg attributes distinguish
Features == SUBSET {"std", "with-tracing"}

VARIABLES
  feature,              \* the enabled cargo features of this build
  SUBSCRIBER_INSTANCE,  \* the OnceCell: [state, value]
  pc,                   \* per context: where it is inside a registry call
  arg,                  \* per context: the instance its set call was given
  nextInst,             \* next fresh instance
  returned,             \* number of set_tracing_subscriber calls that returned
  reads,                \* results of get_tracing_subscriber, with `returned` then
  discarded,            \* instances given to a set call made on an occupied slot
  first,                \* the instance stored by the first successful set
  stack,                \* per context: its open scopes, innermost last
  trace,                \* per context: the calls made on the subscriber/backend
  nextId,               \* next span id the subscriber/backend hands out
  nSpans,               \* macro invocations so far
  lastSpan,             \* the last span passed and built, and where its entry went
  lastLeft,             \* the last scope that was left: how, and what it yielded
  reported              \* the last span a consumer saw, and how it reported it

regvars == <<SUBSCRIBER_INSTANCE, pc, arg, nextInst, returned, reads, discarded, first>>
spanvars == <<stack, trace, nextId, nSpans, lastSpan, lastLeft>>
vars == <<feature, regvars, spanvars, reported>>

\* ------------------------------------------------------------ cfg gates
\* #[cfg(feature = "std")]
cfg_std == "std" \in feature
\* #[cfg(all(not(feature = "std"), feature = "with-tracing"))]
cfg_bridge == "std" \notin feature /\ "with-tracing" \in feature
\* #[cfg(all(not(feature = "std"), not(feature = "with-tracing")))]
cfg_noop == "std" \notin feature /\ "with-tracing" \notin feature
\* #[cfg(any(feature = "std", not(feature = "with-tracing")))]
cfg_std_or_no_tracing == "std" \in feature \/ "with-tracing" \notin feature

\* ------------------------------------------------------------- OnceCell
\* OnceCell::new()
OnceCellNew == [state |-> "Incomplete", value |-> None]

\* OnceCell::get(): the value once the cell is complete
OnceCellGet(cell) == IF cell.state = "Complete" THEN cell.value ELSE None

Min(a, b) == IF a < b THEN a ELSE b

\* the scope of a function body: no guards yet, code running
FnFrame ==
  [kind |-> "fn", prog |-> <<"code">>, guards |-> <<>>, status |-> "running",
   ran |-> 1, body |-> None]

Init ==
  /\ feature \in Features
  /\ SUBSCRIBER_INSTANCE = OnceCellNew
  /\ pc = [c \in Ctx |-> "idle"]
  /\ arg = [c \in Ctx |-> None]
  /\ nextInst = 1
  /\ returned = 0
  /\ reads = {}
  /\ discarded = {}
  /\ first = None
  /\ stack = [c \in Ctx |-> <<FnFrame>>]
  /\ trace = [c \in Ctx |-> <<>>]
  /\ nextId = 1
  /\ nSpans = 0
  /\ lastSpan = {}
  /\ lastLeft = {}
  /\ reported = {}

\* ------------------------------------------------- set_tracing_subscriber
\* The caller boxes a fresh subscriber and calls set_tracing_subscriber.
\* With "with-tracing" the call goes on to SUBSCRIBER_INSTANCE.set; without,
\* the function body is unreachable!(): the call panics and the context
\* unwinds.  With "std" the function is not defined.
SetCall(c) ==
  /\ ~cfg_std
  /\ pc[c] = "idle"
  /\ nextInst <= MaxInstances
  /\ nextInst' = nextInst + 1
  /\ IF cfg_bridge
       THEN /\ pc' = [pc EXCEPT ![c] = "set"]
            /\ arg' = [arg EXCEPT ![c] = Some(nextInst)]
            /\ discarded' = IF SUBSCRIBER_INSTANCE.state = "Complete"
                              THEN discarded \cup {nextInst} ELSE discarded
            /\ UNCHANGED stack
       ELSE /\ pc' = [pc EXCEPT ![c] = "panicked"]
            /\ stack' = [stack EXCEPT ![c] = <<>>]
            /\ UNCHANGED <<arg, discarded>>
  /\ UNCHANGED <<feature, reported, SUBSCRIBER_INSTANCE, returned, reads, first>>
  /\ UNCHANGED <<trace, nextId, nSpans, lastSpan, lastLeft>>

\* set that does not wait for a running initialisation: check-then-store
SetTry_NoWait(c) ==
  /\ pc[c] = "set"
  /\ IF SUBSCRIBER_INSTANCE.state # "Complete"
       THEN /\ SUBSCRIBER_INSTANCE' = [SUBSCRIBER_INSTANCE EXCEPT !.state = "Running"]
            /\ pc' = [pc EXCEPT ![c] = "set_write"]
            /\ UNCHANGED arg
       ELSE /\ pc' = [pc EXCEPT ![c] = "set_ret"]
            /\ arg' = [arg EXCEPT ![c] = None]
            /\ UNCHANGED SUBSCRIBER_INSTANCE
  /\ UNCHANGED <<feature, reported, nextInst, returned, reads, discarded, first, spanvars>>

\* set with last-write-wins: an occupied slot is overwritten
SetTry_Replace(c) ==
  /\ pc[c] = "set"
  /\ SUBSCRIBER_INSTANCE.state # "Running"
  /\ pc' = [pc EXCEPT ![c] = "set_write"]
  /\ UNCHANGED <<feature, reported, SUBSCRIBER_INSTANCE, arg, nextInst, returned, reads,
                 discarded, first, spanvars>>

\* set that gives up instead of waiting while another caller initialises
SetTry_NoBlock(c) ==
  /\ pc[c] = "set"
  /\ IF SUBSCRIBER_INSTANCE.state = "Incomplete"
       THEN /\ SUBSCRIBER_INSTANCE' = [SUBSCRIBER_INSTANCE EXCEPT !.state = "Running"]
            /\ pc' = [pc EXCEPT ![c] = "set_write"]
            /\ UNCHANGED arg
       ELSE /\ pc' = [pc EXCEPT ![c] = "set_ret"]
            /\ arg' = [arg EXCEPT ![c] = None]
            /\ UNCHANGED SUBSCRIBER_INSTANCE
  /\ UNCHANGED <<feature, reported, nextInst, returned, reads, discarded, first, spanvars>>

\* SUBSCRIBER_INSTANCE.set(subscriber), entry: a complete cell refuses the
\* value (Err, dropped by `let _ =`); an empty cell is claimed by exactly one
\* caller; while another caller is initialising, set blocks.
SetTry(c) ==
  /\ pc[c] = "set"
  /\ SUBSCRIBER_INSTANCE.state # "Running"
  /\ IF SUBSCRIBER_INSTANCE.state = "Incomplete"
       THEN /\ SUBSCRIBER_INSTANCE' = [SUBSCRIBER_INSTANCE EXCEPT !.state = "Running"]
            /\ pc' = [pc EXCEPT ![c] = "set_write"]
            /\ UNCHANGED arg
       ELSE /\ pc' = [pc EXCEPT ![c] = "set_ret"]
            /\ arg' = [arg EXCEPT ![c] = None]
            /\ UNCHANGED SUBSCRIBER_INSTANCE
  /\ UNCHANGED <<feature, reported, nextInst, returned, reads, discarded, first, spanvars>>

\* SUBSCRIBER_INSTANCE.set(subscriber), the winner stores and publishes
SetWrite(c) ==
  /\ pc[c] = "set_write"
  /\ SUBSCRIBER_INSTANCE' = [state |-> "Complete", value |-> arg[c]]
  /\ first' = IF first = None THEN arg[c] ELSE first
  /\ arg' = [arg EXCEPT ![c] = None]
  /\ pc' = [pc EXCEPT ![c] = "set_ret"]
  /\ UNCHANGED <<feature, reported, nextInst, returned, reads, discarded, spanvars>>

\* set_tracing_subscriber returns ()
SetReturn(c) ==
  /\ pc[c] = "set_ret"
  /\ pc' = [pc EXCEPT ![c] = "idle"]
  /\ returned' = returned + 1
  /\ UNCHANGED <<feature, reported, SUBSCRIBER_INSTANCE, arg, nextInst, reads, discarded,
                 first, spanvars>>

\* ------------------------------------------------- get_tracing_subscriber
\* get that falls back to a default subscriber (0) on an empty slot
get_tracing_subscriber_or_default ==
  IF cfg_bridge /\ OnceCellGet(SUBSCRIBER_INSTANCE) # None
    THEN OnceCellGet(SUBSCRIBER_INSTANCE) ELSE Some(0)

\* with "with-tracing": SUBSCRIBER_INSTANCE.get(); without: None
get_tracing_subscriber ==
  IF cfg_bridge THEN OnceCellGet(SUBSCRIBER_INSTANCE) ELSE None

\* get that takes the value out of the slot
Get_Take(c) ==
  /\ ~cfg_std
  /\ pc[c] = "idle"
  /\ reads' = reads \cup {[res |-> get_tracing_subscriber, after |-> Min(returned, 2)]}
  /\ SUBSCRIBER_INSTANCE' = IF SUBSCRIBER_INSTANCE.state = "Complete"
                              THEN OnceCellNew ELSE SUBSCRIBER_INSTANCE
  /\ UNCHANGED <<feature, reported, pc, arg, nextInst, returned, discarded, first, spanvars>>

\* get that installs a default subscriber (0) into an empty slot
Get_OrInit(c) ==
  /\ ~cfg_std
  /\ pc[c] = "idle"
  /\ reads' = reads \cup {[res |-> get_tracing_subscriber, after |-> Min(returned, 2)]}
  /\ SUBSCRIBER_INSTANCE' = IF SUBSCRIBER_INSTANCE.state = "Incomplete"
                              THEN [state |-> "Complete", value |-> Some(0)]
                              ELSE SUBSCRIBER_INSTANCE
  /\ UNCHANGED <<feature, reported, pc, arg, nextInst, returned, discarded, first, spanvars>>

\* the caller reads the slot
Get(c) ==
  /\ ~cfg_std
  /\ pc[c] = "idle"
  /\ reads' = reads \cup {[res |-> get_tracing_subscriber, after |-> Min(returned, 2)]}
  /\ UNCHANGED <<feature, reported, SUBSCRIBER_INSTANCE, pc, arg, nextInst, returned,
                 discarded, first, spanvars>>

\* ------------------------------------------------------------ the macros
\* span!(level, name): the span expression a caller or a macro arm writes
span(lvl, name) == [level |-> lvl, name |-> name]

\* enter_span!, the arms `$span:expr` and `$lvl:expr, $name:expr`: the span
\* that is bound to __within_span__ and entered
enter_span_expr(d) ==
  IF d.form = "span" THEN span(d.level, d.name) ELSE span("TRACE", d.name)

\* within_span!, the arms `$span:expr; code` and `$lvl:expr, $name:expr; code`:
\* the span handed on to enter_span!
within_span_expr(d) ==
  IF d.form = "span" THEN span(d.level, d.name) ELSE span("TRACE", d.name)

\* the macros of mod wasm_tracing (bridge active): the span is built from the
\* level and the name the caller passes
wasm_span_expr(d) == span(d.level, d.name)

\* within_span!, the statements of the expansion: { enter_span!($span); code }
within_span_active == <<"enter_span", "code">>
\* a no-op variant that swallows the code with the span
within_span_noop_dropped == <<>>
\* within_span!, no-op variant: code alone
within_span_noop == <<"code">>
\* within_span! of mod wasm_tracing: enter the span, then run the code
wasm_within_span == <<"enter_span", "code">>

\* The macro_rules! definitions of one name in file order, each with its cfg
\* gate: within_span! is defined entering (line 99) and then no-op (line
\* 122), enter_span! no-op (line 142) and then entering (line 161).
within_span_defs ==
  <<[variant |-> "enter", admitted |-> cfg_std_or_no_tracing],
    [variant |-> "noop", admitted |-> cfg_noop]>>
enter_span_defs ==
  <<[variant |-> "noop", admitted |-> cfg_noop],
    [variant |-> "enter", admitted |-> cfg_std_or_no_tracing]>>

\* The definition a call site gets: of the definitions the build admits, the
\* one defined last (a later macro_rules! shadows an earlier one of the same
\* name); where lib.rs admits none, the macro is the one of mod wasm_tracing.
MacroInEffect(defs) ==
  LET adm == SelectSeq(defs, LAMBDA m : m.admitted)
  IN IF adm = <<>> THEN "wasm_tracing" ELSE adm[Len(adm)].variant

\* the statements of the within_span! in effect
within_span_prog ==
  LET v == MacroInEffect(within_span_defs)
  IN IF v = "enter" THEN within_span_active
     ELSE IF v = "noop" THEN within_span_noop
     ELSE wasm_within_span

\* the span expression a macro invocation evaluates, None if it evaluates none
SpanBuilt(macro, d) ==
  LET v == MacroInEffect(IF macro = "within_span" THEN within_span_defs
                         ELSE enter_span_defs)
      enters == IF macro = "within_span"
                  THEN \E i \in DOMAIN within_span_prog : within_span_prog[i] = "enter_span"
                ELSE v # "noop"
  IN IF ~enters THEN None
     ELSE IF v = "wasm_tracing" THEN Some(wasm_span_expr(d))
     ELSE IF macro = "within_span" THEN Some(within_span_expr(d))
     ELSE Some(enter_span_expr(d))

\* __within_span__.enter() with the native backend: the span has an id and
\* the guard carries it
NativeEnter == Some(nextId)

\* Span::enter of mod wasm_tracing: the span reaches the subscriber that
\* get_tracing_subscriber yields; with none, nothing is called
WasmEnter == IF get_tracing_subscriber # None THEN Some(nextId) ELSE None

\* every span taken through the subscriber slot, whatever the build
EnterRoute_Registry == "registry"
\* Where `.enter()` of the span type in scope leads: with std the span is a
\* tracing::Span of the native backend, without std it is wasm_tracing's
\* Span, which looks the subscriber up in the slot.
EnterRoute == IF cfg_std THEN "native" ELSE "registry"

\* the guard `let __tracing_guard__ = __within_span__.enter();` yields
Guard(sp) ==
  IF sp = None THEN <<>>
  ELSE IF EnterRoute = "native" THEN <<NativeEnter>>
  ELSE <<WasmEnter>>

\* the calls a guard's creation makes on the subscriber/backend
EnterCalls(g) ==
  IF g = <<>> \/ g[1] = None THEN <<>>
  ELSE LET id == CHOOSE i \in g[1] : TRUE
       IN <<[op |-> "new_span", id |-> id], [op |-> "enter", id |-> id]>>

Reverse(s) == [i \in 1..Len(s) |-> s[Len(s) + 1 - i]]

\* guards that all exit the span of the guard dropped first
ExitCalls_SameHandle(gs) ==
  LET real == SelectSeq(gs, LAMBDA g : g # None)
  IN [i \in 1..Len(real) |-> [op |-> "exit", id |-> CHOOSE x \in real[1] : TRUE]]

RECURSIVE ExitCalls(_)
\* dropping guards in the order given: one exit per guard that carries an id
ExitCalls(gs) ==
  IF gs = <<>> THEN <<>>
  ELSE IF gs[1] = None THEN ExitCalls(Tail(gs))
  ELSE <<[op |-> "exit", id |-> CHOOSE i \in gs[1] : TRUE]>> \o ExitCalls(Tail(gs))

\* only the guard bound last is released (the earlier binding is lost)
DropGuards_LastOnly(guards) ==
  IF guards = <<>> THEN <<>> ELSE ExitCalls(<<guards[Len(guards)]>>)
\* guards released in declaration order
DropGuards_DeclOrder(guards) == ExitCalls(guards)
\* leaving a scope drops its locals in reverse order of declaration
DropGuards(guards) == ExitCalls(Reverse(guards))

Top(c) == stack[c][Len(stack[c])]
CanRun(c) == pc[c] = "idle" /\ stack[c] # <<>> /\ Top(c).status = "running"
NumCode(prog) == Cardinality({i \in DOMAIN prog : prog[i] = "code"})

\* enter_span!(d) as a statement of the running scope
EnterSpan(c, d) ==
  /\ CanRun(c)
  /\ nSpans < MaxSpans
  /\ LET sp == SpanBuilt("enter_span", d)
         g == Guard(sp)
         n == Len(stack[c])
     IN /\ stack' = [stack EXCEPT ![c][n].guards = @ \o g]
        /\ trace' = [trace EXCEPT ![c] = @ \o EnterCalls(g)]
        /\ nextId' = IF EnterCalls(g) # <<>> THEN nextId + 1 ELSE nextId
        /\ lastSpan' = IF sp = None THEN lastSpan
                       ELSE {[macro |-> "enter_span", passed |-> d,
                              built |-> CHOOSE b \in sp : TRUE, via |-> EnterRoute]}
  /\ nSpans' = nSpans + 1
  /\ UNCHANGED <<feature, reported, regvars, lastLeft>>

\* within_span!(d; code): the block is opened, its enter_span! statement
\* runs, and the code starts
WithinSpan(c, d) ==
  /\ CanRun(c)
  /\ nSpans < MaxSpans
  /\ LET prog == within_span_prog
         sp == SpanBuilt("within_span", d)
         g == Guard(sp)
         copies == NumCode(prog)
         f == [kind |-> "within_span", prog |-> prog, guards |-> g,
               status |-> IF copies = 0 THEN "normal" ELSE "running",
               ran |-> IF copies = 0 THEN 0 ELSE 1, body |-> None]
     IN /\ stack' = [stack EXCEPT ![c] = Append(@, f)]
        /\ trace' = [trace EXCEPT ![c] = @ \o EnterCalls(g)]
        /\ nextId' = IF EnterCalls(g) # <<>> THEN nextId + 1 ELSE nextId
        /\ lastSpan' = IF sp = None THEN lastSpan
                       ELSE {[macro |-> "within_span", passed |-> d,
                              built |-> CHOOSE b \in sp : TRUE, via |-> EnterRoute]}
  /\ nSpans' = nSpans + 1
  /\ UNCHANGED <<feature, reported, regvars, lastLeft>>

\* the code of the innermost scope reaches its end with value v, returns
\* early, or panics
Finish(c, outcome, v) ==
  /\ CanRun(c)
  /\ LET n == Len(stack[c])
         f == stack[c][n]
     IN stack' = [stack EXCEPT ![c][n] =
          IF outcome = "normal" /\ f.ran < NumCode(f.prog)
            THEN [f EXCEPT !.ran = @ + 1]
          ELSE [f EXCEPT !.status = outcome,
                         !.body = IF outcome = "normal" THEN Some(v) ELSE None]]
  /\ UNCHANGED <<feature, reported, regvars, trace, nextId, nSpans, lastSpan, lastLeft>>

\* the value of the within_span! block: that of its last statement
BlockValue(f) ==
  IF f.status = "normal" /\ f.prog # <<>> /\ f.prog[Len(f.prog)] = "code"
    THEN f.body ELSE None

\* control leaves the innermost scope: its guards are dropped; an early
\* return or a panic goes on leaving the enclosing scope
LeaveScope(c) ==
  /\ pc[c] = "idle"
  /\ stack[c] # <<>>
  /\ Top(c).status # "running"
  /\ LET n == Len(stack[c])
         f == stack[c][n]
         exits == DropGuards(f.guards)
         below == SubSeq(stack[c], 1, n - 1)
     IN /\ stack' = [stack EXCEPT ![c] =
              IF n > 1 /\ f.status # "normal" /\ f.kind = "within_span"
                THEN [below EXCEPT ![n - 1].status = f.status]
              ELSE below]
        /\ trace' = [trace EXCEPT ![c] = @ \o exits]
        /\ lastLeft' = {[kind |-> f.kind, ran |-> f.ran, outcome |-> f.status,
                          body |-> f.body, val |-> BlockValue(f),
                          exits |-> Len(exits)]}
  /\ UNCHANGED <<feature, reported, regvars, nextId, nSpans, lastSpan>>

\* the context calls the next function
CallFn(c) ==
  /\ pc[c] = "idle"
  /\ stack[c] = <<>>
  /\ stack' = [stack EXCEPT ![c] = <<FnFrame>>]
  /\ UNCHANGED <<feature, reported, regvars, trace, nextId, nSpans, lastSpan, lastLeft>>

\* ---------------------------------------------------------- the consumer
\* the values recorded under a field name
ValuesOf(fields, key) == {fields[i].value : i \in {j \in DOMAIN fields : fields[j].name = key}}

\* the value of a field name, the last one recorded winning
Lookup(fields, key) ==
  LET idx == {i \in DOMAIN fields : fields[i].name = key}
  IN IF idx = {} THEN None
     ELSE Some(fields[CHOOSE i \in idx : \A j \in idx : j <= i].value)

\* a consumer that never looks at the fields
ConsumerReport_Literal(name, target, fields) == [name |-> name, target |-> target]
\* a consumer that substitutes whichever override field it finds
ConsumerReport_Partial(name, target, fields) ==
  LET n == Lookup(fields, WASM_NAME_KEY)
      t == Lookup(fields, WASM_TARGET_KEY)
  IN IF name = WASM_TRACE_IDENTIFIER
       THEN [name |-> IF n = None THEN name ELSE CHOOSE x \in n : TRUE,
             target |-> IF t = None THEN target ELSE CHOOSE x \in t : TRUE]
     ELSE [name |-> name, target |-> target]

\* The name and target a consumer reports for a span: for the sentinel name
\* with both override fields present, the values of those fields; otherwise
\* the literal name and target.
ConsumerReport(name, target, fields) ==
  LET n == Lookup(fields, WASM_NAME_KEY)
      t == Lookup(fields, WASM_TARGET_KEY)
  IN IF name = WASM_TRACE_IDENTIFIER /\ n # None /\ t # None
       THEN [name |-> CHOOSE x \in n : TRUE, target |-> CHOOSE x \in t : TRUE]
     ELSE [name |-> name, target |-> target]

\* a consumer is shown a span and reports it
ConsumerSees(name, target, fields) ==
  /\ reported' = {[name |-> name, target |-> target, fields |-> fields,
                    report |-> ConsumerReport(name, target, fields)]}
  /\ UNCHANGED <<feature, regvars, spanvars>>

\* ------------------------------------------------------- specifications
\* The registry: every context installs and reads.
Next ==
  \E c \in Ctx :
    \/ SetCall(c)
    \/ SetTry(c)
    \/ SetWrite(c)
    \/ SetReturn(c)
    \/ Get(c)

Spec == Init /\ [][Next]_vars

\* Traced code: context Guest runs code with the span macros while context
\* Host installs subscribers.
Guest == CHOOSE c \in Ctx : \A o \in Ctx : c <= o
Host == NumCtx

NextSpan ==
  \/ SetCall(Host)
  \/ SetTry(Host)
  \/ SetWrite(Host)
  \/ SetReturn(Host)
  \/ \E d \in DocExamples : EnterSpan(Guest, d)
  \/ \E d \in DocExamples : WithinSpan(Guest, d)
  \/ \E o \in Outcomes, v \in BodyValues : Finish(Guest, o, v)
  \/ LeaveScope(Guest)
  \/ CallFn(Guest)

SpecSpan == Init /\ [][NextSpan]_vars

\* The macros over every level, name and form, in one context.
NextLevels ==
  \/ \E d \in Descriptors : EnterSpan(Guest, d)
  \/ \E d \in Descriptors : WithinSpan(Guest, d)
  \/ \E o \in Outcomes, v \in BodyValues : Finish(Guest, o, v)
  \/ LeaveScope(Guest)
  \/ CallFn(Guest)

SpecLevels == Init /\ [][NextLevels]_vars

\* The consumer over every span name and field set.
NextConsumer ==
  \E name \in SeenNames, target \in SeenTargets, fields \in FieldSets :
    ConsumerSees(name, target, fields)

SpecConsumer == Init /\ [][NextConsumer]_vars

\* ------------------------------------------------------------ properties
Slot == OnceCellGet(SUBSCRIBER_INSTANCE)
Frames(c) == {stack[c][i] : i \in DOMAIN stack[c]}
Ids(tr, op) == {tr[i].id : i \in {j \in DOMAIN tr : tr[j].op = op}}
Count(tr, op, id) == Cardinality({i \in DOMAIN tr : tr[i].op = op /\ tr[i].id = id})
IdSeq(tr, op) ==
  LET sel == SelectSeq(tr, LAMBDA e : e.op = op)
  IN [i \in 1..Len(sel) |-> sel[i].id]
\* the ids of the guards a context holds in its open scopes
GuardIds(c) == UNION {UNION {f.guards[i] : i \in DOMAIN f.guards} : f \in Frames(c)}
\* the stack of entered spans after each call of a trace; -1 marks an exit
\* that was not for the innermost entered span
OpenAfter(tr) ==
  LET st[i \in 0..Len(tr)] ==
        IF i = 0 THEN <<>>
        ELSE LET e == tr[i]
                 p == st[i - 1]
             IN IF e.op = "enter" THEN Append(p, e.id)
                ELSE IF e.op = "exit"
                  THEN IF p # <<>> /\ p[Len(p)] = e.id
                         THEN SubSeq(p, 1, Len(p) - 1)
                       ELSE Append(p, -1)
                ELSE p
  IN st[Len(tr)]
NoEnterAfterExit(tr) ==
  \A i, j \in DOMAIN tr : i < j => ~(tr[i].op = "exit" /\ tr[j].op = "enter")

\* C1: once two installs have returned, the slot holds exactly one instance,
\* the one that the first store put there, and every get_tracing_subscriber
\* made from then on returned that instance (never None, never another).
C1_RaceHasOneWinner ==
  returned >= 2 =>
    /\ Cardinality(Slot) = 1
    /\ Slot \subseteq 1..(nextInst - 1)
    /\ Slot = first
    /\ \A r \in reads : r.after >= 2 => r.res = Slot
\* both installs were called on an empty slot, both have returned, and a
\* read made after that is on record
C1_Witness ==
  /\ returned = 2
  /\ discarded = {}
  /\ nextInst = 3
  /\ \E r \in reads : r.after = 2 /\ r.res # None

\* C2: an instance passed to set_tracing_subscriber on an occupied slot never
\* is in the slot and never is returned by get_tracing_subscriber; the slot
\* keeps the first stored instance, and the call does not panic.
C2_SetOnOccupiedIsNoOp ==
  /\ discarded \cap Slot = {}
  /\ \A r \in reads : r.res \cap discarded = {}
  /\ Slot # None => Slot = first
  /\ cfg_bridge => \A c \in Ctx : pc[c] # "panicked"
\* a set on the occupied slot has returned and the slot was read afterwards
C2_Witness ==
  /\ discarded # {}
  /\ returned >= 2
  /\ \A c \in Ctx : pc[c] = "idle"
  /\ \E r \in reads : r.after = 2 /\ r.res = first

\* C3: the slot starts empty, and in every step a slot that holds an
\* instance holds the same instance afterwards.
C3_SlotWriteOnce == Slot = None /\ [][Slot # None => Slot' = Slot]_vars
\* the slot is occupied, was read, and a later install has come and gone
C3_Witness ==
  /\ Slot # None
  /\ nextInst > MaxInstances
  /\ returned >= 2
  /\ \E r \in reads : r.res = Slot

\* C4: no bridge operation ends in a panic, in any build configuration.
C4_NoPanic == \A c \in Ctx : pc[c] # "panicked"

\* C5: a span built for the level-and-name form of within_span!/enter_span!
\* has the level and the name the caller passed.
C5_LevelAndNameAsPassed ==
  \A s \in lastSpan :
    s.passed.form = "lvl_name" => s.built = span(s.passed.level, s.passed.name)

\* C6: per context, a span is entered at most once and exited at most once,
\* and the spans entered and not yet exited are exactly those whose guard is
\* held by a scope that has not been left.
C6_ExitOnceAtScopeEnd ==
  \A c \in Ctx :
    /\ \A id \in Ids(trace[c], "enter") \cup Ids(trace[c], "exit") :
         /\ Count(trace[c], "enter", id) = 1
         /\ Count(trace[c], "exit", id) <= 1
    /\ Ids(trace[c], "enter") \ Ids(trace[c], "exit") = GuardIds(c)
\* a scope was left by a panic and its span was exited on the way out
C6_Witness ==
  /\ \E r \in lastLeft : r.outcome = "unwind" /\ r.exits > 0
  /\ Ids(trace[Guest], "exit") # {}
  /\ GuardIds(Guest) = {}

\* C7: per context, every exit is for the innermost span entered and not yet
\* exited.
C7_StrictlyNested ==
  \A c \in Ctx : \A i \in DOMAIN trace[c] :
    -1 \notin {OpenAfter(SubSeq(trace[c], 1, i))[k] :
                 k \in DOMAIN OpenAfter(SubSeq(trace[c], 1, i))}
\* one scope held two entered spans and has released both
C7_Witness ==
  /\ \E r \in lastLeft : r.exits = 2
  /\ Len(IdSeq(trace[Guest], "exit")) = 2

\* C8 as stated: when no scope of a context holds an entered span, the
\* handles it passed to exit are the reverse of the handles it passed to enter.
C8_ExitsReverseEnters ==
  \A c \in Ctx :
    GuardIds(c) = {} =>
      IdSeq(trace[c], "exit") = Reverse(IdSeq(trace[c], "enter"))
\* C8 amended: the same, for a context that entered no span after it had
\* exited one (a single chain of nested spans).
C8_NestedChainExitsReverseEnters ==
  \A c \in Ctx :
    (GuardIds(c) = {} /\ NoEnterAfterExit(trace[c])) =>
      IdSeq(trace[c], "exit") = Reverse(IdSeq(trace[c], "enter"))
\* a chain of two nested spans was entered and has been exited
C8_Witness ==
  /\ Len(IdSeq(trace[Guest], "enter")) = 2
  /\ Len(IdSeq(trace[Guest], "exit")) = 2
  /\ GuardIds(Guest) = {}
  /\ NoEnterAfterExit(trace[Guest])

\* C9: in every build configuration the code of a within_span! is run
\* exactly once, and a within_span! whose code ran to its end yields the
\* value the code evaluated to.
C9_BodyOnceSameValue ==
  /\ \A c \in Ctx : \A f \in Frames(c) : f.kind = "within_span" => f.ran = 1
  /\ \A r \in lastLeft :
       r.kind = "within_span" =>
         /\ r.ran = 1
         /\ r.outcome = "normal" => (r.body # None /\ r.val = r.body)
\* with the bridge compiled out, a within_span! has completed with a value
C9_Witness ==
  /\ cfg_noop
  /\ \E r \in lastLeft : r.kind = "within_span" /\ r.outcome = "normal" /\ r.val # None

C11_NoopMacrosInEffect ==
  cfg_noop =>
    /\ lastSpan = {}
    /\ \A c \in Ctx : \A f \in Frames(c) : f.guards = <<>>
    /\ \A c \in Ctx : trace[c] = <<>>

\* C14: with std, every span a macro builds is entered on the native backend
\* (one new_span there per macro invocation), and the subscriber slot and
\* the registry functions are never touched.
C14_StdBypassesRegistry ==
  cfg_std =>
    /\ \A s \in lastSpan : s.via = "native"
    /\ Len(IdSeq(trace[Guest], "new_span")) = nSpans
    /\ SUBSCRIBER_INSTANCE = OnceCellNew
    /\ reads = {}
    /\ nextInst = 1 /\ returned = 0
\* with std, a within_span! and an enter_span! have run and were traced
C14_Witness ==
  /\ cfg_std
  /\ nSpans >= 2
  /\ Len(IdSeq(trace[Guest], "exit")) >= 2
  /\ \E r \in lastLeft : r.kind = "within_span"

\* C12: a span with the sentinel name and both override fields is reported
\* with a name that is a value of the name field and a target that is a
\* value of the target field, not with the sentinel and the literal target.
C12_OverrideBothPresent ==
  \A r \in reported :
    (/\ r.name = WASM_TRACE_IDENTIFIER
     /\ ValuesOf(r.fields, WASM_NAME_KEY) # {}
     /\ ValuesOf(r.fields, WASM_TARGET_KEY) # {}) =>
      /\ r.report.name \in ValuesOf(r.fields, WASM_NAME_KEY)
      /\ r.report.target \in ValuesOf(r.fields, WASM_TARGET_KEY)
      /\ r.report.name # WASM_TRACE_IDENTIFIER
      /\ r.report.target # r.target
\* a sentinel span with name "N" and target "T" in its fields was reported
C12_Witness ==
  \E r \in reported :
    /\ r.name = WASM_TRACE_IDENTIFIER
    /\ ValuesOf(r.fields, WASM_NAME_KEY) = {"N"}
    /\ ValuesOf(r.fields, WASM_TARGET_KEY) = {"T"}
    /\ r.report = [name |-> "N", target |-> "T"]

\* C13: a span with the sentinel name that lacks one or both override fields
\* is reported with the sentinel name and the literal target.
C13_FallbackWhenEitherAbsent ==
  \A r \in reported :
    (/\ r.name = WASM_TRACE_IDENTIFIER
     /\ \/ ValuesOf(r.fields, WASM_NAME_KEY) = {}
        \/ ValuesOf(r.fields, WASM_TARGET_KEY) = {}) =>
      r.report = [name |-> r.name, target |-> r.target]
\* a sentinel span with the name field alone was reported
C13_Witness ==
  \E r \in reported :
    /\ r.name = WASM_TRACE_IDENTIFIER
    /\ ValuesOf(r.fields, WASM_NAME_KEY) # {}
    /\ ValuesOf(r.fields, WASM_TARGET_KEY) = {}
    /\ r.report.name = WASM_TRACE_IDENTIFIER

\* C15: every instance a read has returned is the one instance ever stored,
\* it still occupies the slot, and it is never an instance whose install
\* was refused; once a read has returned an instance, every later read
\* returns that instance.
C15_ReadsSeeOnlyTheOccupant ==
  /\ [](\A r \in reads : r.res # None =>
          /\ r.res = first
          /\ r.res = get_tracing_subscriber
          /\ r.res \cap discarded = {})
  /\ [][(\E q \in reads : q.res # None) =>
          \A r \in reads' \ reads : r.res \in {q.res : q \in reads} \ {None}]_vars
\* two installers raced on the empty slot, both returned, and reads saw the
\* slot empty before and the winner's instance after
C15_Witness ==
  /\ cfg_bridge
  /\ nextInst >= 3 /\ discarded = {}
  /\ returned >= 2
  /\ \E r \in reads : r.res = None
  /\ \E r \in reads : r.res # None /\ r.after = 2

\* C16: with with-tracing alone, a read made after a set_tracing_subscriber
\* call has returned yields an instance, and the slot reads as occupied from
\* the first return on.
C16_PresentAfterAnySetReturned ==
  cfg_bridge =>
    /\ \A r \in reads : r.after >= 1 => r.res # None
    /\ returned >= 1 => get_tracing_subscriber # None
\* exactly one of two racing set calls has returned, the other has not yet,
\* and a read made in between found an instance
C16_Witness ==
  /\ cfg_bridge
  /\ nextInst >= 3 /\ discarded = {}
  /\ returned = 1
  /\ \E c \in Ctx : pc[c] = "set_ret"
  /\ \E r \in reads : r.after = 1 /\ r.res # None

\* C17: a step in which no context moves inside set_tracing_subscriber is a
\* read; it leaves the slot and everything an installer wrote unchanged, it
\* returns the slot's content, and the next read returns the same.
C17_GetIsReadOnly ==
  [][pc' = pc =>
       /\ SUBSCRIBER_INSTANCE' = SUBSCRIBER_INSTANCE
       /\ first' = first /\ discarded' = discarded /\ arg' = arg
       /\ \A r \in reads' \ reads : r.res = get_tracing_subscriber
       /\ get_tracing_subscriber' = get_tracing_subscriber]_vars
\* the slot was read twice while empty and read while occupied, with no
\* second install ever made
C17_Witness ==
  /\ nextInst = 2
  /\ \E r \in reads : r.res = None /\ r.after = 0
  /\ \E r \in reads : r.res # None /\ r.after = 1
  /\ Slot # None
====
